---- MODULE Spec2Model ----
(***************************************************************************)
(* Nonogram line solver (Column::try_fit), clue extractor                  *)
(* (PaintedColumn::get_info), cell-wise merge (BitOr for Column) and the   *)
(* board propagator (Board::try_paint) of src/src/nonogram.rs, driven the  *)
(* way src/src/main.rs drives them.                                        *)
(*                                                                         *)
(* Rust vectors are 0-indexed, TLA+ sequences 1-indexed: position p of the *)
(* source is position p + 1 here.                                          *)
(***************************************************************************)
EXTENDS Integers, Sequences, FiniteSets, TLC

VARIABLES
    \* get_mean_rate_painting_columns: one trial
    painted_column,   \* PaintedColumn.cells : Vec<bool>
    info,             \* ColumnInfo.info     : Vec<usize>
    column,           \* Column.cells        : Vec<Option<bool>>
    new_column,       \* Option<Column> returned by try_fit
    lpc,              \* position inside the trial
    \* operands and results of Column | Column
    lhs, rhs, third, merged,
    \* get_mean_rate_painting_nonogram_board: one trial
    width, height,    \* PaintedBoard.width / height (= Board.width / height)
    painted_cells,    \* PaintedBoard.cells : Vec<bool>
    cells,            \* Board.cells        : Vec<Option<bool>>
    infos,            \* Board.infos        : ColumnInfos
    current_hash, new_hash, index,   \* locals of Board::try_paint
    pc,               \* position inside Board::try_paint
    passes,           \* completed bodies of the while loop
    rerun, converged  \* try_paint called again on the converged board

lineVars  == <<painted_column, info, column, new_column, lpc>>
mergeVars == <<lhs, rhs, third, merged>>
boardVars == <<width, height, painted_cells, cells, infos, current_hash,
               new_hash, index, pc, passes, rerun, converged>>
vars == <<lineVars, mergeVars, boardVars>>

----------------------------------------------------------------------------
(* Bounds of the model *)
MaxLen == 5         \* longest line given to try_fit / get_info
MaxBlocks == 2      \* most blocks in a free clue
MaxRun == 3         \* longest block in a free clue
MaxMergeLen == 2    \* longest operands of the merge
MaxWidth == 3       \* widest board
MaxHeight == 3      \* tallest board
MaxCells == 9       \* most cells of a board, every ground truth enumerated
MaxSetCells == 6    \* most cells of a board written by set_row / set_column
MaxSide == 4        \* largest square board with blank upper rows
MaxPaintedCells == 8 \* most cells in the lower rows that may hold Filled cells

----------------------------------------------------------------------------
(* Option<bool> cells and Option<Column> results *)
Unknown == "None"
Filled == "Some(true)"
Empty == "Some(false)"
Cell == {Unknown, Filled, Empty}

None == [some |-> FALSE, cells |-> <<>>]
Some(c) == [some |-> TRUE, cells |-> c]

\* |&cell| Some(cell)
SomeOf(b) == IF b THEN Filled ELSE Empty

Min(a, b) == IF a <= b THEN a ELSE b

\* Column::full
Full(lenght, value) == [p \in 1..lenght |-> value]

\* Column::slice(range), range = start..end (0-indexed, end exclusive)
Slice(self, start, end) == SubSeq(self, start + 1, end)

\* impl Add for Column
Add(self, other) == self \o other

\* a consistency test that accepts every candidate
fit_in_always(self, other) == TRUE

\* Column::fit_in
fit_in(self, other) ==
    \A p \in 1..Min(Len(self), Len(other)) :
        self[p] = Unknown \/ other[p] = Unknown \/ self[p] = other[p]

\* a merge that keeps the left operand's value on disagreement
BitOr_keep_left(self, other) ==
    [p \in 1..Min(Len(self), Len(other)) |->
        IF self[p] # Unknown THEN self[p] ELSE Unknown]

\* impl BitOr for Column
BitOr(self, other) ==
    [p \in 1..Min(Len(self), Len(other)) |->
        IF self[p] # Unknown /\ other[p] # Unknown /\ self[p] = other[p]
        THEN self[p] ELSE Unknown]

\* if column.fit_in(self) { final_column = Some(column) or Some(final | column) }
Accumulate(self, final_column, candidate) ==
    IF fit_in(candidate, self)
    THEN IF ~final_column.some THEN Some(candidate)
         ELSE Some(BitOr(final_column.cells, candidate))
    ELSE final_column

RECURSIVE try_fit(_, _)
RECURSIVE FitSingle(_, _, _, _)
RECURSIVE FitMulti(_, _, _, _)

\* the loop of the one-block branch whose first placement is dropped
FitSingle_skip_first(self, num, i, final_column) ==
    IF i > Len(self) - num THEN final_column
    ELSE FitSingle(self, num, i + 1,
            IF i = 0 THEN final_column
            ELSE Accumulate(self, final_column,
                    Add(Add(Full(i, Empty), Full(num, Filled)),
                        Full(Len(self) - num - i, Empty))))

\* try_fit, info.len() == 1: for i in 0..=self.cells.len() - num
FitSingle(self, num, i, final_column) ==
    IF i > Len(self) - num THEN final_column
    ELSE FitSingle(self, num, i + 1,
            Accumulate(self, final_column,
                Add(Add(Full(i, Empty), Full(num, Filled)),
                    Full(Len(self) - num - i, Empty))))

\* the loop of the many-block branch without the separator cell
FitMulti_no_separator(self, clue, i, final_column) ==
    LET num == clue[1] IN
    IF i > Len(self) - num THEN final_column
    ELSE IF Len(self) >= num + 1 + i
    THEN LET others_column == try_fit(Slice(self, i + num, Len(self)), Tail(clue)) IN
         FitMulti(self, clue, i + 1,
            IF others_column.some
            THEN Accumulate(self, final_column,
                    Add(Add(Full(i, Empty), Full(num, Filled)), others_column.cells))
            ELSE final_column)
    ELSE FitMulti(self, clue, i + 1, final_column)

\* try_fit, info.len() >= 2: for i in 0..=self.cells.len() - num
FitMulti(self, clue, i, final_column) ==
    LET num == clue[1] IN
    IF i > Len(self) - num THEN final_column
    ELSE IF Len(self) >= num + 1 + i
    THEN LET others_column == try_fit(Slice(self, i + num + 1, Len(self)), Tail(clue)) IN
         FitMulti(self, clue, i + 1,
            IF others_column.some
            THEN Accumulate(self, final_column,
                    Add(Add(Add(Full(i, Empty), Full(num, Filled)), Full(1, Empty)),
                        others_column.cells))
            ELSE final_column)
    ELSE FitMulti(self, clue, i + 1, final_column)

\* Column::try_fit
try_fit(self, clue) ==
    IF Len(clue) = 0 THEN Some(Full(Len(self), Empty))
    ELSE IF Len(clue) = 1
    THEN IF clue[1] > Len(self) THEN None ELSE FitSingle(self, clue[1], 0, None)
    ELSE IF Len(self) < clue[1] THEN None ELSE FitMulti(self, clue, 0, None)

RECURSIVE InfoScan(_, _, _, _)

\* the scan that forgets the run still open at the end of the line
InfoScan_no_final_push(line, p, state, acc) ==
    IF p > Len(line) THEN acc
    ELSE IF line[p] THEN InfoScan(line, p + 1, state + 1, acc)
    ELSE IF state = 0 THEN InfoScan(line, p + 1, state, acc)
    ELSE InfoScan(line, p + 1, 0, Append(acc, state))

\* PaintedColumn::get_info: for cell in &self.cells { match (state, cell) }
InfoScan(line, p, state, acc) ==
    IF p > Len(line)
    THEN IF state # 0 THEN Append(acc, state) ELSE acc
    ELSE IF line[p] THEN InfoScan(line, p + 1, state + 1, acc)
    ELSE IF state = 0 THEN InfoScan(line, p + 1, state, acc)
    ELSE InfoScan(line, p + 1, 0, Append(acc, state))

\* PaintedColumn::get_info
get_info(line) == InfoScan(line, 1, 0, <<>>)

----------------------------------------------------------------------------
(* PaintedBoard and Board *)

\* PaintedBoard::get_row(j)
painted_get_row(pcells, w, j) == SubSeq(pcells, j * w + 1, (j + 1) * w)

\* PaintedBoard::get_column(i): self.cells[i..height * width].iter().step_by(width)
painted_get_column(pcells, w, h, i) ==
    [r \in 1..((h * w - i + w - 1) \div w) |-> pcells[i + (r - 1) * w + 1]]

\* PaintedBoard::get_column_infos
get_column_infos(pcells, w, h) ==
    [columns |-> [i \in 1..w |-> get_info(painted_get_column(pcells, w, h, i - 1))],
     rows    |-> [j \in 1..h |-> get_info(painted_get_row(pcells, w, j - 1))]]

\* Board::get_row(j)
get_row(bcells, w, j) == SubSeq(bcells, j * w + 1, (j + 1) * w)

\* Board::get_column(i): self.cells[i..height * width].iter().step_by(width)
get_column(bcells, w, h, i) ==
    [r \in 1..((h * w - i + w - 1) \div w) |-> bcells[i + (r - 1) * w + 1]]

\* the smallest element of a set of indexes, n when the set is empty
FirstOf(S, n) == IF S = {} THEN n ELSE CHOOSE x \in S : \A y \in S : x <= y

\* Board::set_row(j, row): for index in 0..self.width
\*     self.cells[index + j * self.width] = row.cells[index]
\* an index out of bounds panics after the earlier assignments were made
set_row(bcells, w, j, row) ==
    LET stop == FirstOf({x \in 0..(w - 1) : x >= Len(row) \/ x + j * w >= Len(bcells)}, w)
    IN  [ok    |-> stop = w,
         cells |-> [k \in 1..Len(bcells) |->
                      IF \E x \in 0..(stop - 1) : k = x + j * w + 1
                      THEN row[k - j * w] ELSE bcells[k]]]

\* a column write-back that stops one cell short
set_column_one_short(bcells, w, i, col) ==
    [ok    |-> TRUE,
     cells |-> [k \in 1..Len(bcells) |->
                  IF \E x \in 0..(w - 2) : k = i + x * w + 1
                  THEN col[((k - i - 1) \div w) + 1] ELSE bcells[k]]]

\* Board::set_column(i, column): for index in 0..self.width
\*     self.cells[i + index * self.width] = column.cells[index]
\* an index out of bounds panics after the earlier assignments were made
set_column(bcells, w, i, col) ==
    LET stop == FirstOf({x \in 0..(w - 1) : x >= Len(col) \/ i + x * w >= Len(bcells)}, w)
    IN  [ok    |-> stop = w,
         cells |-> [k \in 1..Len(bcells) |->
                      IF \E x \in 0..(stop - 1) : k = i + x * w + 1
                      THEN col[((k - i - 1) \div w) + 1] ELSE bcells[k]]]

\* self.cells.iter().filter(|&cell| cell.is_some()).count()
count_some(bcells) ==
    Cardinality({k \in 1..Len(bcells) : bcells[k] # Unknown})

\* a loop that goes on only while the count is below the previous one
loop_condition_less(current, new) == current > new

\* while current_hash != new_hash
loop_condition(current, new) == current # new

\* Board::verify
verify(bcells, pcells) ==
    \A k \in 1..Min(Len(bcells), Len(pcells)) :
        ~(bcells[k] # Unknown /\ bcells[k] # SomeOf(pcells[k]))

\* the outcome of a step: the grid it leaves and how it ended
Ok(bcells) == [end |-> "ok", cells |-> bcells]
Panic(why, bcells) == [end |-> why, cells |-> bcells]

\* let mut row = self.get_row(index);
\* row = row.try_fit(&self.infos.rows[index]).unwrap();
\* self.set_row(index, row);
paint_row(bcells, j) ==
    LET row == try_fit(get_row(bcells, width, j), infos.rows[j + 1]) IN
    IF ~row.some THEN Panic("unwrap_none", bcells)
    ELSE LET written == set_row(bcells, width, j, row.cells) IN
         IF written.ok THEN Ok(written.cells)
         ELSE Panic("index_out_of_bounds", written.cells)

\* let mut column = self.get_column(index);
\* column = column.try_fit(&self.infos.columns[index]).unwrap();
\* self.set_column(index, column);
paint_column(bcells, i) ==
    LET col == try_fit(get_column(bcells, width, height, i), infos.columns[i + 1]) IN
    IF ~col.some THEN Panic("unwrap_none", bcells)
    ELSE LET written == set_column(bcells, width, i, col.cells) IN
         IF written.ok THEN Ok(written.cells)
         ELSE Panic("index_out_of_bounds", written.cells)

RECURSIVE paint_rows(_, _)
\* for index in 0..self.height { ... }, from row j on
paint_rows(bcells, j) ==
    IF j >= height THEN Ok(bcells)
    ELSE LET step == paint_row(bcells, j) IN
         IF step.end = "ok" THEN paint_rows(step.cells, j + 1) ELSE step

RECURSIVE paint_columns(_, _)
\* for index in 0..self.width { ... }, from column i on
paint_columns(bcells, i) ==
    IF i >= width THEN Ok(bcells)
    ELSE LET step == paint_column(bcells, i) IN
         IF step.end = "ok" THEN paint_columns(step.cells, i + 1) ELSE step

\* one body of the while loop of Board::try_paint
full_pass(bcells) ==
    LET rows == paint_rows(bcells, 0) IN
    IF rows.end = "ok" THEN paint_columns(rows.cells, 0) ELSE rows

----------------------------------------------------------------------------
(* Reference notions the properties are stated against *)

\* first positions of the maximal runs of TRUE in a binary line
RunStarts(f) == {s \in 1..Len(f) : f[s] /\ (s = 1 \/ ~f[s - 1])}

\* last position of the maximal run that starts at s
RunEnd(f, s) ==
    CHOOSE e \in s..Len(f) : (\A p \in s..e : f[p]) /\ (e = Len(f) \/ ~f[e + 1])

\* lengths of the maximal runs, left to right
RunLengths(f) ==
    LET starts == RunStarts(f) IN
    [n \in 1..Cardinality(starts) |->
        LET s == CHOOSE s \in starts : Cardinality({t \in starts : t < s}) = n - 1
        IN  RunEnd(f, s) - s + 1]

\* a binary filling agrees with every fixed cell of a tri-state line
Agrees(f, line) == \A p \in 1..Len(line) : line[p] = Unknown \/ line[p] = SomeOf(f[p])

\* the binary fillings of a line that encode to the clue and keep its fixed cells
ConsistentFillings(line, clue) ==
    {f \in [1..Len(line) -> BOOLEAN] : RunLengths(f) = clue /\ Agrees(f, line)}

\* cell-wise intersection of a non-empty set of binary fillings of length n
Intersection(fillings, n) ==
    LET fs == fillings IN
    [p \in 1..n |->
        IF \A f \in fs : f[p] THEN Filled
        ELSE IF \A f \in fs : ~f[p] THEN Empty
        ELSE Unknown]

RECURSIVE SumSeq(_)
SumSeq(s) == IF s = <<>> THEN 0 ELSE Head(s) + SumSeq(Tail(s))

NumDetermined(line) == Cardinality({p \in 1..Len(line) : line[p] \in {Filled, Empty}})

----------------------------------------------------------------------------
(* Inputs *)
TriLines(maxLen) == UNION {[1..n -> Cell] : n \in 0..maxLen}
BinaryLines(maxLen) == UNION {[1..n -> BOOLEAN] : n \in 0..maxLen}
Clues == UNION {[1..k -> 1..MaxRun] : k \in 0..MaxBlocks}

NotMerged ==
    [done |-> FALSE, ab |-> <<>>, ba |-> <<>>, ab_c |-> <<>>, a_bc |-> <<>>, aa |-> <<>>]

LineIdle ==
    /\ painted_column = <<>> /\ info = <<>> /\ column = <<>>
    /\ new_column = None /\ lpc = "idle"

MergeIdle ==
    /\ lhs = <<>> /\ rhs = <<>> /\ third = <<>>
    /\ merged = NotMerged

BoardIdle ==
    /\ width = 0 /\ height = 0 /\ painted_cells = <<>> /\ cells = <<>>
    /\ infos = [columns |-> <<>>, rows |-> <<>>]
    /\ current_hash = 0 /\ new_hash = 0 /\ index = 0 /\ pc = "idle"
    /\ passes = 0 /\ rerun = FALSE /\ converged = <<>>

----------------------------------------------------------------------------
(* Column::try_fit on a free line and a free clue *)
InitFit ==
    /\ column \in TriLines(MaxLen)
    /\ info \in Clues
    /\ painted_column = <<>>
    /\ new_column = None
    /\ lpc = "try_fit"
    /\ MergeIdle /\ BoardIdle

\* column.try_fit(&info)
TryFit ==
    /\ lpc = "try_fit"
    /\ new_column' = try_fit(column, info)
    /\ lpc' = "done"
    /\ UNCHANGED <<painted_column, info, column, mergeVars, boardVars>>

NextFit == TryFit

SpecFit == InitFit /\ [][NextFit]_vars

(* One trial of get_mean_rate_painting_columns *)
InitColumns ==
    /\ painted_column \in BinaryLines(MaxLen)
    /\ info = <<>>
    /\ column = <<>>
    /\ new_column = None
    /\ lpc = "get_info"
    /\ MergeIdle /\ BoardIdle

\* let info = painted_column.get_info();
GetInfo ==
    /\ lpc = "get_info"
    /\ info' = get_info(painted_column)
    /\ lpc' = "new_ramdom_from"
    /\ UNCHANGED <<painted_column, column, new_column, mergeVars, boardVars>>

\* Column::new_ramdom_from: each cell revealed or not by a random draw
new_ramdom_from ==
    /\ lpc = "new_ramdom_from"
    /\ \E reveal \in [1..Len(painted_column) -> BOOLEAN] :
          column' = [p \in 1..Len(painted_column) |->
                        IF reveal[p] THEN SomeOf(painted_column[p]) ELSE Unknown]
    /\ lpc' = "try_fit"
    /\ UNCHANGED <<painted_column, info, new_column, mergeVars, boardVars>>

NextColumns == GetInfo \/ new_ramdom_from \/ TryFit

SpecColumns == InitColumns /\ [][NextColumns]_vars

----------------------------------------------------------------------------
(* Column | Column on free operands of equal length *)
InitMerge ==
    /\ \E n \in 0..MaxMergeLen :
          /\ lhs \in [1..n -> Cell]
          /\ rhs \in [1..n -> Cell]
          /\ third \in [1..n -> Cell]
    /\ merged = NotMerged
    /\ LineIdle /\ BoardIdle

\* lhs | rhs, rhs | lhs, (lhs | rhs) | third, lhs | (rhs | third), lhs | lhs
MergeLines ==
    /\ ~merged.done
    /\ merged' = [done |-> TRUE,
                  ab   |-> BitOr(lhs, rhs),
                  ba   |-> BitOr(rhs, lhs),
                  ab_c |-> BitOr(BitOr(lhs, rhs), third),
                  a_bc |-> BitOr(lhs, BitOr(rhs, third)),
                  aa   |-> BitOr(lhs, lhs)]
    /\ UNCHANGED <<lhs, rhs, third, lineVars, boardVars>>

NextMerge == MergeLines

SpecMerge == InitMerge /\ [][NextMerge]_vars

----------------------------------------------------------------------------
(* One trial of get_mean_rate_painting_nonogram_board *)

\* PaintedBoard::into_empty_board
into_empty_board(w, h, pcells) ==
    /\ width = w /\ height = h
    /\ painted_cells = pcells
    /\ cells = Full(w * h, Unknown)
    /\ infos = get_column_infos(pcells, w, h)
    /\ current_hash = 0 /\ new_hash = 0 /\ index = 0
    /\ pc = "try_paint" /\ passes = 0
    /\ rerun = FALSE /\ converged = <<>>

\* every ground truth of every width and height up to the bounds
InitBoard ==
    /\ \E w \in 1..MaxWidth, h \in 1..MaxHeight :
          /\ w * h <= MaxCells
          /\ \E pcells \in [1..(w * h) -> BOOLEAN] : into_empty_board(w, h, pcells)
    /\ LineIdle /\ MergeIdle

\* square ground truths whose Filled cells all lie in the last rows, as many
\* whole rows as hold at most MaxPaintedCells cells
InitSquare ==
    /\ \E n \in 1..MaxSide :
          LET painted == Min(n, MaxPaintedCells \div n) IN
          \E lower \in [1..(painted * n) -> BOOLEAN] :
              into_empty_board(n, n, Full((n - painted) * n, FALSE) \o lower)
    /\ LineIdle /\ MergeIdle

\* let mut current_hash = self.width * self.height; let mut new_hash = 0;
TryPaintEnter ==
    /\ pc = "try_paint"
    /\ current_hash' = width * height
    /\ new_hash' = 0
    /\ pc' = "while"
    /\ UNCHANGED <<width, height, painted_cells, cells, infos, index, passes,
                   rerun, converged, lineVars, mergeVars>>

\* while current_hash != new_hash { current_hash = new_hash; ...
WhileHead ==
    /\ pc = "while"
    /\ IF loop_condition(current_hash, new_hash)
       THEN /\ current_hash' = new_hash
            /\ index' = 0
            /\ pc' = IF height > 0 THEN "rows" ELSE IF width > 0 THEN "columns" ELSE "count"
       ELSE /\ pc' = "done"
            /\ UNCHANGED <<current_hash, index>>
    /\ UNCHANGED <<width, height, painted_cells, cells, infos, new_hash, passes,
                   rerun, converged, lineVars, mergeVars>>

\* one iteration of: for index in 0..self.height { get_row, try_fit, set_row }
PaintRow ==
    /\ pc = "rows"
    /\ LET step == paint_row(cells, index) IN
          /\ cells' = step.cells
          /\ IF step.end # "ok" THEN pc' = step.end /\ index' = index
             ELSE IF index + 1 < height THEN pc' = "rows" /\ index' = index + 1
             ELSE /\ index' = 0
                  /\ pc' = IF width > 0 THEN "columns" ELSE "count"
    /\ UNCHANGED <<width, height, painted_cells, infos, current_hash, new_hash,
                   passes, rerun, converged, lineVars, mergeVars>>

\* one iteration of: for index in 0..self.width { get_column, try_fit, set_column }
PaintColumn ==
    /\ pc = "columns"
    /\ LET step == paint_column(cells, index) IN
          /\ cells' = step.cells
          /\ IF step.end # "ok" THEN pc' = step.end /\ index' = index
             ELSE IF index + 1 < width THEN pc' = "columns" /\ index' = index + 1
             ELSE pc' = "count" /\ index' = 0
    /\ UNCHANGED <<width, height, painted_cells, infos, current_hash, new_hash,
                   passes, rerun, converged, lineVars, mergeVars>>

\* new_hash = self.cells.iter().filter(|&cell| cell.is_some()).count(); }
CountHash ==
    /\ pc = "count"
    /\ new_hash' = count_some(cells)
    /\ passes' = passes + 1
    /\ pc' = "while"
    /\ UNCHANGED <<width, height, painted_cells, cells, infos, current_hash, index,
                   rerun, converged, lineVars, mergeVars>>

\* board.try_paint() called once more on the board it has converged on
Rerun ==
    /\ pc = "done" /\ ~rerun
    /\ rerun' = TRUE
    /\ converged' = cells
    /\ passes' = 0
    /\ pc' = "try_paint"
    /\ UNCHANGED <<width, height, painted_cells, cells, infos, current_hash,
                   new_hash, index, lineVars, mergeVars>>

NextBoard == TryPaintEnter \/ WhileHead \/ PaintRow \/ PaintColumn \/ CountHash \/ Rerun

SpecBoard == InitBoard /\ [][NextBoard]_vars

NextSquare == TryPaintEnter \/ WhileHead \/ PaintRow \/ PaintColumn \/ CountHash

SpecSquare == InitSquare /\ [][NextSquare]_vars

----------------------------------------------------------------------------
(* Board::set_row / set_column followed by get_row / get_column *)

\* a board of any width and height whose cells hold any values: every such
\* grid is what set_row calls leave of the all-None board of Board::from
InitSet ==
    /\ \E w \in 1..MaxWidth, h \in 1..MaxHeight :
          /\ w * h <= MaxSetCells
          /\ width = w /\ height = h
          /\ cells \in [1..(w * h) -> Cell]
          /\ infos = [columns |-> Full(w, <<>>), rows |-> Full(h, <<>>)]
    /\ painted_cells = <<>>
    /\ current_hash = 0 /\ new_hash = 0 /\ index = 0
    /\ pc = "board" /\ passes = 0
    /\ rerun = FALSE /\ converged = <<>>
    /\ painted_column = <<>> /\ info = <<>> /\ column = <<>>
    /\ new_column = None /\ lpc = "idle"
    /\ MergeIdle

\* board.set_row(j, row); board.get_row(j)
SetRow ==
    /\ pc = "board"
    /\ \E j \in 0..(height - 1), row \in [1..width -> Cell] :
          LET written == set_row(cells, width, j, row) IN
          /\ index' = j
          /\ column' = row
          /\ cells' = written.cells
          /\ IF written.ok
             THEN pc' = "set_row" /\ new_column' = Some(get_row(written.cells, width, j))
             ELSE pc' = "index_out_of_bounds" /\ new_column' = None
    /\ UNCHANGED <<width, height, painted_cells, infos, current_hash, new_hash,
                   passes, rerun, converged, painted_column, info, lpc, mergeVars>>

\* board.set_column(i, column); board.get_column(i)
SetColumn ==
    /\ pc = "board"
    /\ \E i \in 0..(width - 1), col \in [1..height -> Cell] :
          LET written == set_column(cells, width, i, col) IN
          /\ index' = i
          /\ column' = col
          /\ cells' = written.cells
          /\ IF written.ok
             THEN /\ pc' = "set_column"
                  /\ new_column' = Some(get_column(written.cells, width, height, i))
             ELSE pc' = "index_out_of_bounds" /\ new_column' = None
    /\ UNCHANGED <<width, height, painted_cells, infos, current_hash, new_hash,
                   passes, rerun, converged, painted_column, info, lpc, mergeVars>>

NextSet == SetRow \/ SetColumn

SpecSet == InitSet /\ [][NextSet]_vars

\* the panics of Board::try_paint
Aborted == pc \in {"unwrap_none", "index_out_of_bounds"}

----------------------------------------------------------------------------
(* C1: whenever some binary filling encodes to the clue and keeps the fixed
   cells, try_fit returns a line of the input's length that is Filled (Empty)
   exactly where every such filling is Filled (Empty) and Unknown elsewhere. *)
C1_ExactIntersection ==
    (lpc = "done" /\ ConsistentFillings(column, info) # {}) =>
        /\ new_column.some
        /\ Len(new_column.cells) = Len(column)
        /\ new_column.cells = Intersection(ConsistentFillings(column, info), Len(column))

\* a two-block clue with a fixed cell, several placements, some cells forced and some not
C1_Witness ==
    /\ lpc = "done" /\ Len(info) >= 2
    /\ Cardinality(ConsistentFillings(column, info)) >= 2
    /\ \E p \in 1..Len(column) : column[p] # Unknown
    /\ \E p \in 1..Len(column) : column[p] = Unknown /\ new_column.cells[p] = Filled
    /\ \E p \in 1..Len(column) : column[p] = Unknown /\ new_column.cells[p] = Empty
    /\ \E p \in 1..Len(column) : new_column.cells[p] = Unknown

(* C2: for a clue of at least one block, try_fit returns None exactly when no
   binary filling of the line's length encodes to the clue and keeps the
   fixed cells. *)
C2_NoneIffInfeasible ==
    (lpc = "done" /\ Len(info) >= 1) =>
        (new_column = None <=> ConsistentFillings(column, info) = {})

\* the blocks fit the length, but the fixed cells contradict every placement
C2_Witness ==
    /\ lpc = "done" /\ Len(info) >= 2
    /\ SumSeq(info) + Len(info) - 1 <= Len(column)
    /\ new_column = None

(* C3: for the empty clue try_fit returns the all-Empty line when no fixed
   cell is Filled and None when some fixed cell is Filled. *)
C3_EmptyClue ==
    (lpc = "done" /\ Len(info) = 0) =>
        IF \E p \in 1..Len(column) : column[p] = Filled
        THEN new_column = None
        ELSE new_column = Some(Full(Len(column), Empty))

(* C4: on a ground-truth line with its own clue and any subset of its cells
   revealed, try_fit never returns None and every cell it determines has the
   ground-truth value. *)
C4_Sound ==
    (lpc = "done" /\ Len(painted_column) = Len(column)) =>
        /\ new_column.some
        /\ Len(new_column.cells) = Len(painted_column)
        /\ \A p \in 1..Len(painted_column) :
              new_column.cells[p] # Unknown => new_column.cells[p] = SomeOf(painted_column[p])

\* a partly revealed two-block line on which try_fit determines a hidden cell
C4_Witness ==
    /\ lpc = "done" /\ Len(info) >= 2 /\ Len(painted_column) = Len(column)
    /\ \E p \in 1..Len(column) : column[p] # Unknown
    /\ \E p \in 1..Len(column) : column[p] = Unknown /\ new_column.cells[p] # Unknown
    /\ \E p \in 1..Len(column) : new_column.cells[p] = Unknown

(* C5: get_info returns the lengths of the maximal runs of Filled cells from
   left to right; every entry is at least 1 and, for k >= 1 entries, their
   sum plus k - 1 is at most the line's length. *)
C5_RunLengths ==
    lpc \in {"new_ramdom_from", "try_fit", "done"} =>
        /\ info = RunLengths(painted_column)
        /\ \A n \in 1..Len(info) : info[n] >= 1
        /\ (Len(info) >= 1 => SumSeq(info) + (Len(info) - 1) <= Len(painted_column))

\* two runs, the first after a leading Empty cell, the last open at the end of the line
C5_Witness ==
    /\ lpc = "new_ramdom_from" /\ Len(info) >= 2
    /\ ~painted_column[1] /\ painted_column[Len(painted_column)]
    /\ info[1] >= 2

(* C6: for a ground truth of any width and height, try_paint on the
   all-Unknown board never aborts, and when it has finished every Filled or
   Empty cell of the grid equals the ground truth, so verify returns true. *)
C6_CompletesAndVerifies ==
    /\ ~Aborted
    /\ pc = "done" =>
          /\ verify(cells, painted_cells)
          /\ \A k \in 1..(width * height) :
                cells[k] # Unknown => cells[k] = SomeOf(painted_cells[k])

(* C7: the grid left by try_paint is a fixpoint: one more full pass over it
   ends normally with the identical grid, and a second call of try_paint
   never changes a cell of it. *)
C7_Fixpoint ==
    /\ pc = "done" => full_pass(cells) = Ok(cells)
    /\ rerun => (cells = converged /\ ~Aborted)

\* a second try_paint has finished on a grid that took several passes and is partly undetermined
C7_Witness ==
    /\ rerun /\ pc = "done" /\ passes >= 2
    /\ \E k \in 1..Len(cells) : cells[k] = Unknown
    /\ \E k \in 1..Len(cells) : cells[k] # Unknown

\* the binary lines of length w that encode to the clue
LineOptions(w, clue) == {f \in [1..w -> BOOLEAN] : RunLengths(f) = clue}

RECURSIVE GridsUpTo(_)
\* the binary grids of j rows whose row clues are those of the board
GridsUpTo(j) ==
    IF j = 0 THEN {<<>>}
    ELSE {g \o r : g \in GridsUpTo(j - 1), r \in LineOptions(width, infos.rows[j])}

\* the binary grids whose row and column clues are those of the board
SameClueGrids ==
    {g \in GridsUpTo(height) :
        \A i \in 1..width :
            RunLengths([r \in 1..height |-> g[(r - 1) * width + i]]) = infos.columns[i]}

C9_MergeLaws ==
    merged.done =>
        /\ merged.ab = merged.ba
        /\ merged.ab_c = merged.a_bc
        /\ merged.aa = lhs
        /\ Len(merged.ab) = Len(lhs)
        /\ \A p \in 1..Len(lhs) :
              /\ merged.ab[p] # Unknown => (lhs[p] = merged.ab[p] /\ rhs[p] = merged.ab[p])
              /\ (lhs[p] = rhs[p]) => merged.ab[p] = lhs[p]

\* operands that agree on a determined cell and disagree on another
C9_Witness ==
    /\ merged.done
    /\ \E p \in 1..Len(lhs) : lhs[p] # Unknown /\ lhs[p] = rhs[p]
    /\ \E p \in 1..Len(lhs) : lhs[p] # Unknown /\ rhs[p] # Unknown /\ lhs[p] # rhs[p]

(* C10: in try_paint every step leaves each Filled or Empty cell with the
   value it had, so the number of determined cells never decreases from one
   write-back to the next nor from one pass's count to the next. *)
C10_Monotone ==
    [][/\ Len(cells') = Len(cells)
       /\ \A k \in 1..Len(cells) : cells[k] # Unknown => cells'[k] = cells[k]
       /\ NumDetermined(cells') >= NumDetermined(cells)
       /\ pc = "count" => new_hash' >= new_hash]_vars

\* a column write-back of a later pass, over a grid that is partly determined
C10_Witness ==
    /\ pc = "columns" /\ index >= 1 /\ passes >= 1
    /\ \E k \in 1..Len(cells) : cells[k] = Unknown
    /\ \E k \in 1..Len(cells) : cells[k] # Unknown

(* C11: try_paint always terminates: a pass that is not the last strictly
   increases the number of determined cells, that number never exceeds
   width * height, the loop runs at most width * height + 1 full passes, and
   it is left at the first pass whose count equals the count of the pass
   before, never in another way. *)
C11_StopsByCount ==
    [][/\ ~Aborted'
       /\ new_hash' <= width * height
       /\ passes' <= width * height + 1
       /\ pc = "count" =>
             (count_some(cells) # current_hash => count_some(cells) > current_hash)
       /\ (pc = "while" /\ passes >= 1) =>
             (pc' = "done" <=> new_hash = current_hash)
       /\ pc' = "done" => new_hash' = current_hash']_vars

(* C12: on a board of any width w and height h, set_column(i, c) with a line
   c of length h writes c[r] at row r of column i for every r in 0..h and
   leaves every other cell unchanged, so get_column(i) then returns c; and
   set_row(j, r) leaves every cell outside row j unchanged and get_row(j)
   then returns r. *)
C12_SetThenGet ==
    [][pc = "board" =>
        /\ pc' \in {"set_row", "set_column"}
        /\ pc' = "set_column" =>
              /\ \A r \in 0..(height - 1) : cells'[r * width + index' + 1] = column'[r + 1]
              /\ \A k \in 1..(width * height) :
                    (k - 1) % width # index' => cells'[k] = cells[k]
              /\ new_column' = Some(column')
        /\ pc' = "set_row" =>
              /\ \A x \in 0..(width - 1) : cells'[index' * width + x + 1] = column'[x + 1]
              /\ \A k \in 1..(width * height) :
                    (k - 1) \div width # index' => cells'[k] = cells[k]
              /\ new_column' = Some(column')]_vars

====
